---- MODULE Spec2Model ----
(***************************************************************************)
(* A model of backend/app/services/syllabus_parser.py: the text cleaner,    *)
(* the heuristic event and evaluation extractors, the date normalizer and   *)
(* the orchestrator parse_pdf_bytes with its LLM and fallback paths.        *)
(*                                                                          *)
(* A text is a sequence of symbols.  A symbol is one character (space, tab, *)
(* carriage return, line feed, hyphen, the letter "a") or one word that the *)
(* regular expressions of the program treat as a unit (a keyword, an ISO    *)
(* date, a month-day date, a percentage, a name).  Where the program cuts   *)
(* a string to a length, the characters of its symbols are counted.        *)
(* Weights are integers in hundredths of a percent point.                   *)
(***************************************************************************)
EXTENDS Integers, Sequences, FiniteSets, TLC

VARIABLES
    pc,         \* where the run of parse_pdf_bytes (or of the cleaner) stands
    pages,      \* the text of each page of the uploaded PDF
    raw,        \* what extract_text_from_pdf returned
    text,       \* the cleaned text
    key,        \* OPENAI_API_KEY is configured
    pyd,        \* the major version of pydantic in the build (1 or 2)
    resp,       \* what chain.invoke gave
    result,     \* the ParseResult returned
    err,        \* the exception caught last, or the one raised to the caller
    via,        \* the return statement the result came from
    rescaled,   \* the rescale branch of line 247 was taken
    llmCalls,   \* calls of chain.invoke
    heurCalls,  \* calls of heuristic and of _extract_evaluations
    fallbacks,  \* entries of the except block
    once,       \* _clean_text applied once to raw
    twice       \* _clean_text applied to once

vars == <<pc, pages, raw, text, key, pyd, resp, result, err, via, rescaled,
          llmCalls, heurCalls, fallbacks, once, twice>>

\* ------------------------------------------------------------ symbols
SP == " "
TAB == "\t"
CR == "\r"
LF == "\n"
HY == "-"

\* \s of the regular expressions and the characters str.strip() removes
Whitespace == {SP, TAB, CR, LF}

\* ------------------------------------------------------------ bounds
\* the longest string the cleaner is applied to on its own
MaxLen == 3
\* the most event lines, dates on an event line and evaluation lines of a document
MaxEventLines == 7
MaxDatesPerLine == 3
MaxEvalLines == 11
\* the most events and evaluations of an LLM response
MaxLlmEvents == 21
MaxLlmEvals == 15

\* ------------------------------------------------------------ helpers
Min(a, b) == IF a < b THEN a ELSE b

Max(a, b) == IF a < b THEN b ELSE a

\* s[i..] (empty when i is past the end)
From(s, i) == SubSeq(s, i, Len(s))

\* the last index of the longest run of symbols of set cs that starts at i
\* (i - 1 when s[i] is not in cs)
RECURSIVE RunEnd(_, _, _)
RunEnd(s, i, cs) ==
    IF i <= Len(s) /\ s[i] \in cs THEN RunEnd(s, i + 1, cs) ELSE i - 1

\* the first index of the longest run of symbols of set cs that ends at i
\* (i + 1 when s[i] is not in cs)
RECURSIVE RunStart(_, _, _)
RunStart(s, i, cs) ==
    IF i >= 1 /\ s[i] \in cs THEN RunStart(s, i - 1, cs) ELSE i + 1

\* 1, 2, ..., n
Indices(n) == [i \in 1..n |-> i]

\* the symbols of s at the positions idx, in that order
Pick(s, idx) == [j \in 1..Len(idx) |-> s[idx[j]]]

\* str.strip(chars): the symbols of cs removed at both ends
Strip(s, cs) ==
    LET keep == {i \in 1..Len(s) : s[i] \notin cs}
    IN  IF keep = {} THEN <<>>
        ELSE SubSeq(s, CHOOSE i \in keep : \A j \in keep : i <= j,
                       CHOOSE i \in keep : \A j \in keep : j <= i)

\* ------------------------------------------------------------ _clean_text
\* position k lies in a match of r"-\s*\n\s*": a hyphen followed by a
\* whitespace run that holds a line feed, the whole run included (the first
\* \s* gives back up to the last line feed and the second takes the rest)
InHyphenBreak(s, k) ==
    LET h == IF s[k] = HY THEN k ELSE RunStart(s, k, Whitespace) - 1
        j == RunEnd(s, h + 1, Whitespace)
    IN  /\ s[k] \in Whitespace \cup {HY}
        /\ h >= 1
        /\ s[h] = HY
        /\ \E m \in (h + 1)..j : s[m] = LF

\* re.sub(r"-\s*\n\s*", "", s)
HyphenJoin(s) ==
    Pick(s, SelectSeq(Indices(Len(s)), LAMBDA k : ~InHyphenBreak(s, k)))

\* re.sub(r"\r", "\n", s)
CrToLf(s) == [i \in 1..Len(s) |-> IF s[i] = CR THEN LF ELSE s[i]]

\* re.sub(r"[ \t]+\n", "\n", s): the spaces and tabs of a run that a line feed
\* follows go
TrailingWs(s) ==
    Pick(s, SelectSeq(Indices(Len(s)), LAMBDA k :
        ~(/\ s[k] \in {SP, TAB}
          /\ RunEnd(s, k, {SP, TAB}) < Len(s)
          /\ s[RunEnd(s, k, {SP, TAB}) + 1] = LF)))

\* re.sub(r"\n{3,}", "\n\n", s): of a run of three or more line feeds the
\* first two stay
BlankLines(s) ==
    Pick(s, SelectSeq(Indices(Len(s)), LAMBDA k :
        ~(k >= 3 /\ s[k] = LF /\ s[k - 1] = LF /\ s[k - 2] = LF)))

_clean_text(s) == Strip(BlankLines(TrailingWs(CrToLf(HyphenJoin(s)))), Whitespace)

\* ------------------------------------------------------------ pdf_reader.py
\* the default of max_pages in parse_pdf_bytes
MAX_PAGES == 12

\* "\n\n".join(parts)
RECURSIVE JoinPages(_)
JoinPages(parts) ==
    IF parts = <<>> THEN <<>>
    ELSE IF Len(parts) = 1 THEN parts[1]
    ELSE parts[1] \o <<LF, LF>> \o JoinPages(Tail(parts))

extract_text_from_pdf(data, max_pages) ==
    LET total == Len(data)
        limit == IF max_pages # 0 THEN Min(total, max_pages) ELSE total
        parts == [i \in 1..limit |-> Strip(data[i], Whitespace)]
    IN  Strip(JoinPages(parts), Whitespace)

\* ------------------------------------------------------------ words
\* words of the heuristic keyword lists
KW_QUIZ == "quiz"
KW_DUE == "due"
KW_LATE == "late"
LETTER == "a"
COUNT == "3"
COMMA == ","
YEAR == "2025"
None == "None"

\* ISO dates as the text spells them
IsoWords == {"2025-01-01", "2025-01-02", "2025-01-03", "2025-01-04"}

\* month-day dates without a year, as DATE_TOKEN_RE matches them
MonthDayWords == {"Oct 3", "Feb 30"}

\* percentages and their value in percent points
PercentWords == {"0%", "5%", "10%", "20%", "30%", "50%", "250%"}

PercentValue(t) ==
    CASE t = "0%" -> 0 [] t = "5%" -> 5 [] t = "10%" -> 10 [] t = "20%" -> 20
      [] t = "30%" -> 30 [] t = "50%" -> 50 [] t = "250%" -> 250

\* names that tell assessments apart
NameWords == {"A", "B", "C", "D", "E", "F", "G", "H", "I", "J", "K", "L", "M"}

\* \w at the first and at the last character of a symbol (for \b)
StartsWord(t) == t \notin Whitespace \cup {HY, COMMA}

EndsWord(t) == t \notin Whitespace \cup {HY, COMMA} \cup PercentWords

\* \b before and after the symbol at position i of s
BoundaryBefore(s, i) == i = 1 \/ ~EndsWord(s[i - 1])

BoundaryAfter(s, i) == i = Len(s) \/ ~StartsWord(s[i + 1])

\* number of characters of a sequence of symbols
RECURSIVE Width(_)
Width(s) == IF s = <<>> THEN 0 ELSE Len(Head(s)) + Width(Tail(s))

\* s[:limit], cut at the last symbol that still fits
RECURSIVE Truncate(_, _)
Truncate(s, limit) ==
    IF s = <<>> \/ Len(Head(s)) > limit THEN <<>>
    ELSE <<Head(s)>> \o Truncate(Tail(s), limit - Len(Head(s)))

\* str.splitlines(): the pieces between line breaks (\r\n is one break; no
\* empty piece after the last break)
SplitLines(s) ==
    LET ends == SelectSeq(Indices(Len(s)), LAMBDA i :
                    \/ s[i] = LF
                    \/ s[i] = CR /\ ~(i < Len(s) /\ s[i + 1] = LF))
        last == IF ends = <<>> THEN 0 ELSE ends[Len(ends)]
        n == Len(ends) + (IF last < Len(s) THEN 1 ELSE 0)
        start(k) == IF k = 1 THEN 1 ELSE ends[k - 1] + 1
        stop(k) == IF k > Len(ends) THEN Len(s)
                   ELSE IF ends[k] > start(k) /\ s[ends[k] - 1] = CR
                        THEN ends[k] - 2
                        ELSE ends[k] - 1
    IN  [k \in 1..n |-> SubSeq(s, start(k), stop(k))]

\* str.split(): the maximal runs without whitespace
RECURSIVE SplitWordsFrom(_, _, _)
SplitWordsFrom(s, i, cur) ==
    IF i > Len(s) THEN (IF cur = <<>> THEN <<>> ELSE <<cur>>)
    ELSE IF s[i] \in Whitespace
         THEN (IF cur = <<>> THEN <<>> ELSE <<cur>>) \o SplitWordsFrom(s, i + 1, <<>>)
    ELSE SplitWordsFrom(s, i + 1, Append(cur, s[i]))

SplitWords(s) == SplitWordsFrom(s, 1, <<>>)

\* sep.join(parts)
RECURSIVE Join(_, _)
Join(parts, sep) ==
    IF parts = <<>> THEN <<>>
    ELSE IF Len(parts) = 1 THEN parts[1]
    ELSE parts[1] \o sep \o Join(Tail(parts), sep)

\* ------------------------------------------------------------ dates
\* the day a month-day word names in YEAR; None where strptime raises ValueError
Calendar(md) == IF md = "Oct 3" THEN "2025-10-03" ELSE None

\* the ISO dates the texts of the model can yield, in the order sorted() gives
IsoOrder == <<"2025-01-01", "2025-01-02", "2025-01-03", "2025-01-04", "2025-10-03">>

\* sorted(set(out)) for a set of ISO dates
SortedDates(ds) == SelectSeq(IsoOrder, LAMBDA d : d \in ds)

\* lines 147-158 on the stripped string: an ISO date stays; "<month> <day>,
\* <year>" and "<month> <day> <year>" are read by strptime
ParseDate(s) ==
    IF s = <<>> THEN None
    ELSE IF Len(s) = 1 /\ s[1] \in IsoWords THEN s[1]
    ELSE IF /\ Len(s) >= 3
            /\ s[1] \in MonthDayWords
            /\ s[Len(s)] = YEAR
            /\ \/ /\ s[2] = COMMA
                  /\ Len(s) >= 4
                  /\ \A k \in 3..(Len(s) - 1) : s[k] \in Whitespace
               \/ \A k \in 2..(Len(s) - 1) : s[k] \in Whitespace
         THEN Calendar(s[1])
    ELSE None

_to_iso(date_str) == ParseDate(Strip(date_str, Whitespace))

\* the end of the DATE_TOKEN_RE match that starts at i (0: no match at i)
DateTokenEnd(s, i) ==
    IF ~(s[i] \in MonthDayWords /\ BoundaryBefore(s, i)) THEN 0
    ELSE LET j == RunEnd(s, i + 2, Whitespace)
         IN  IF /\ i + 1 <= Len(s) /\ s[i + 1] = COMMA
                /\ j + 1 <= Len(s) /\ s[j + 1] = YEAR
                /\ BoundaryAfter(s, j + 1)
             THEN j + 1
             ELSE IF BoundaryAfter(s, i) THEN i ELSE 0

\* re.search(r"\b(20\d{2}|19\d{2})\b", s) finds a year
HasYear(s) ==
    \E i \in 1..Len(s) :
        \/ s[i] = YEAR /\ BoundaryBefore(s, i) /\ BoundaryAfter(s, i)
        \/ s[i] \in IsoWords /\ BoundaryBefore(s, i)

\* lines 189-191: a token without a year takes the year found in the string
WithYear(token, inferred_year) ==
    IF ~HasYear(token) /\ inferred_year THEN token \o <<COMMA, SP, YEAR>> ELSE token

_extract_iso_dates(s) ==
    SortedDates(
        {s[i] : i \in {k \in 1..Len(s) :
            s[k] \in IsoWords /\ BoundaryBefore(s, k) /\ BoundaryAfter(s, k)}}
        \cup
        ({_to_iso(WithYear(SubSeq(s, i, DateTokenEnd(s, i)), HasYear(s))) :
            i \in {k \in 1..Len(s) : DateTokenEnd(s, k) > 0}} \ {None}))

\* ------------------------------------------------------------ models.py
\* a call that returns v, and a call that raises exception e
Return(v) == [ok |-> TRUE, value |-> v]

Raise(e) == [ok |-> FALSE, error |-> e]

\* Event(title=..., date=...)
Event(title, date) == [title |-> title, date |-> date]

\* Assessment(name=..., weight=w): the field is declared int.  pydantic 2
\* rejects a number with a fractional part and pydantic 1 cuts it off; which
\* one validates depends on the build (pyd).  w is in hundredths.
Assessment(name, w) ==
    IF pyd = 2
    THEN IF w % 100 = 0 THEN Return([name |-> name, weight |-> w])
         ELSE Raise("ValidationError")
    ELSE Return([name |-> name, weight |-> (w \div 100) * 100])

ParseResult(summary, events, evaluations) ==
    [summary |-> summary, events |-> events, evaluations |-> evaluations]

\* ------------------------------------------------------------ program constants
SUMMARY_LINES == 5
SUMMARY_CHARS == 400
TITLE_CHARS == 120
HEURISTIC_EVENT_STOP == 20
NAME_WORDS == 8
NAME_MIN_CHARS == 3
EVALUATION_CAP == 10
EVENT_CAP == 20
TOLERANCE == 5
WEIGHT_MAX == 200

\* ------------------------------------------------------------ weights
\* sum of the weights of a sequence of assessments
RECURSIVE SumWeights(_)
SumWeights(as) == IF as = <<>> THEN 0 ELSE Head(as).weight + SumWeights(Tail(as))

\* round(w / total * 100, 2) in hundredths, for w and total in one unit;
\* a tie goes to the even neighbour as round() does
Round2(w, total) ==
    LET n == w * 10000
        q == n \div total
        r == n % total
    IN  IF 2 * r < total THEN q
        ELSE IF 2 * r > total THEN q + 1
        ELSE IF q % 2 = 0 THEN q ELSE q + 1

\* max(as, key=weight): the index of the first entry with the largest weight
Largest(as) ==
    CHOOSE i \in 1..Len(as) :
        /\ \A j \in 1..Len(as) : as[j].weight <= as[i].weight
        /\ \A j \in 1..(i - 1) : as[j].weight < as[i].weight

\* diff = round(100 - sum, 2); if abs(diff) >= 0.05, the largest entry takes it
ResidualFix(as) ==
    LET diff == 10000 - SumWeights(as)
    IN  IF diff >= TOLERANCE \/ -diff >= TOLERANCE
        THEN [as EXCEPT ![Largest(as)].weight = @ + diff]
        ELSE as

\* ------------------------------------------------------------ _extract_evaluations
\* the words of allow_keywords and deny_keywords (both matched between \b)
AllowWords == {KW_QUIZ}

DenyWords == {KW_LATE}

\* symbols made of digits only
DigitWords == {COUNT, YEAR}

\* a word of set ws stands in line between word boundaries
HasWord(line, ws) ==
    \E i \in 1..Len(line) :
        line[i] \in ws /\ BoundaryBefore(line, i) /\ BoundaryAfter(line, i)

\* percent_re.search(line): the position of the first percentage (0: none)
FirstPercent(line) ==
    IF \E i \in 1..Len(line) : line[i] \in PercentWords
    THEN CHOOSE i \in 1..Len(line) :
            /\ line[i] \in PercentWords
            /\ \A j \in 1..(i - 1) : line[j] \notin PercentWords
    ELSE 0

\* re.split(r"\s{2,}|\t|\s-\s|:\s", name)[0]: the text before the first separator
IsSeparatorAt(s, i) ==
    \/ s[i] \in Whitespace /\ i < Len(s) /\ s[i + 1] \in Whitespace
    \/ s[i] = TAB
    \/ /\ s[i] \in Whitespace /\ i + 2 <= Len(s)
       /\ s[i + 1] = HY /\ s[i + 2] \in Whitespace

SplitHead(s) ==
    IF \E i \in 1..Len(s) : IsSeparatorAt(s, i)
    THEN LET i == CHOOSE i \in 1..Len(s) :
                    IsSeparatorAt(s, i) /\ \A j \in 1..(i - 1) : ~IsSeparatorAt(s, j)
         IN  SubSeq(s, 1, i - 1)
    ELSE s

\* re.sub(r"\s*\(*\d{1,3}\s*%\)*", "", name): each percentage goes, with the
\* whitespace before it
RECURSIVE DropPercentFrom(_, _)
DropPercentFrom(s, i) ==
    IF i > Len(s) THEN <<>>
    ELSE LET j == RunEnd(s, i, Whitespace)
         IN  IF j + 1 <= Len(s) /\ s[j + 1] \in PercentWords
             THEN DropPercentFrom(s, j + 2)
             ELSE IF j >= i THEN SubSeq(s, i, j) \o DropPercentFrom(s, j + 1)
             ELSE <<s[i]>> \o DropPercentFrom(s, i + 1)

DropPercent(s) == DropPercentFrom(s, 1)

\* re.sub(r"\s{2,}", " ", name)
RECURSIVE SqueezeFrom(_, _)
SqueezeFrom(s, i) ==
    IF i > Len(s) THEN <<>>
    ELSE LET j == RunEnd(s, i, Whitespace)
         IN  IF j > i THEN <<SP>> \o SqueezeFrom(s, j + 1)
             ELSE <<s[i]>> \o SqueezeFrom(s, i + 1)

Squeeze(s) == SqueezeFrom(s, 1)

\* re.sub(r"^\d+\s+", "", name)
DropCount(s) ==
    IF Len(s) >= 2 /\ s[1] \in DigitWords /\ s[2] \in Whitespace
    THEN From(s, RunEnd(s, 2, Whitespace) + 1)
    ELSE s

\* lines 111-113: at most NAME_WORDS words
CapWords(name, words) ==
    IF Len(words) > NAME_WORDS
    THEN Join(SubSeq(words, 1, NAME_WORDS), <<SP>>)
    ELSE name

ShortName(name) == CapWords(name, SplitWords(name))

\* the name of the assessment a line describes (lines 103-113)
EvaluationName(line) ==
    ShortName(Strip(DropCount(Strip(Squeeze(DropPercent(SplitHead(line))),
                                    {SP, HY, TAB})),
                    Whitespace))

\* lines 114-116
Named(name, weight) ==
    IF Width(name) < NAME_MIN_CHARS THEN <<>>
    ELSE <<[name |-> name, weight |-> weight]>>

\* lines 99-113
Weighted(line, weight) ==
    IF ~(0 < weight /\ weight <= 100) THEN <<>>
    ELSE Named(EvaluationName(line), weight)

\* lines 89-98: the candidate of one line (none, or one), weight in percent
Candidate(line) ==
    IF FirstPercent(line) = 0 THEN <<>>
    ELSE IF HasWord(line, DenyWords) THEN <<>>
    ELSE IF ~HasWord(line, AllowWords) THEN <<>>
    ELSE Weighted(line, PercentValue(line[FirstPercent(line)]))

\* the loop of lines 87-116
RECURSIVE Candidates(_)
Candidates(lines) ==
    IF lines = <<>> THEN <<>>
    ELSE Candidate(Join(SplitWords(Head(lines)), <<SP>>)) \o Candidates(Tail(lines))

\* lines 119-122: one row per name, in the order of first appearance, with the
\* largest weight seen for the name
RECURSIVE Dedup(_, _)
Dedup(cands, rows) ==
    IF cands = <<>> THEN rows
    ELSE LET c == Head(cands)
         IN  IF \E i \in 1..Len(rows) : rows[i].name = c.name
             THEN LET i == CHOOSE i \in 1..Len(rows) : rows[i].name = c.name
                  IN  Dedup(Tail(cands),
                            [rows EXCEPT ![i].weight = Max(c.weight, @)])
             ELSE Dedup(Tail(cands), Append(rows, c))

\* line 137
Capped(normalized) ==
    Return(SubSeq(normalized, 1, Min(Len(normalized), EVALUATION_CAP)))

\* lines 129-135, built being the Assessment calls of line 130
Built(built) ==
    IF \E i \in 1..Len(built) : ~built[i].ok THEN Raise("ValidationError")
    ELSE Capped(ResidualFix([i \in 1..Len(built) |-> built[i].value]))

\* lines 127-131
Scaled(rows, total) ==
    IF total <= 0 THEN Return(<<>>)
    ELSE Built([i \in 1..Len(rows) |->
                    Assessment(rows[i].name, Round2(rows[i].weight, total))])

\* lines 123-126
NormalizeRows(rows) ==
    IF rows = <<>> THEN Return(<<>>) ELSE Scaled(rows, SumWeights(rows))

_extract_evaluations(lines) == NormalizeRows(Dedup(Candidates(lines), <<>>))

\* ------------------------------------------------------------ heuristic
\* the words of allow_keywords at line 55 (found as substrings of the line)
EventWords == {KW_QUIZ, KW_DUE}

\* [l.strip() for l in text.splitlines() if l.strip()]
StripLines(ls) ==
    SelectSeq([i \in 1..Len(ls) |-> Strip(ls[i], Whitespace)], LAMBDA l : l # <<>>)

\* DATE_TOKEN_RE.search(l) or re.search(ISO, l): where the first date starts
FirstDateMatch(l) ==
    LET natural == {i \in 1..Len(l) : DateTokenEnd(l, i) > 0}
        iso == {i \in 1..Len(l) :
                    l[i] \in IsoWords /\ BoundaryBefore(l, i) /\ BoundaryAfter(l, i)}
        first(S) == CHOOSE i \in S : \A j \in S : i <= j
    IN  IF natural # {} THEN first(natural)
        ELSE IF iso # {} THEN first(iso)
        ELSE 0

\* line 66
TitleOr(title, l) == Truncate(IF title = <<>> THEN l ELSE title, TITLE_CHARS)

\* line 65, m being where the first date starts
TitleBefore(l, m) ==
    TitleOr(IF m > 0 THEN Strip(SubSeq(l, 1, m - 1), {SP, HY, TAB}) ELSE l, l)

\* lines 64-66: the text before the first date, or the line
EventTitle(l) == TitleBefore(l, FirstDateMatch(l))

\* the loop of lines 56-70 from line i on, events being those emitted so far
RECURSIVE HeuristicEvents(_, _, _)
RECURSIVE EventsOfLine(_, _, _, _)
RECURSIVE Emitted(_, _, _)
HeuristicEvents(lines, i, events) ==
    IF i > Len(lines) THEN events
    ELSE EventsOfLine(lines, i, events, _extract_iso_dates(lines[i]))

\* lines 57-68 for line i
EventsOfLine(lines, i, events, iso_dates) ==
    IF ~(\E k \in 1..Len(lines[i]) : lines[i][k] \in EventWords)
    THEN HeuristicEvents(lines, i + 1, events)
    ELSE IF iso_dates = <<>> THEN HeuristicEvents(lines, i + 1, events)
    ELSE Emitted(lines, i,
                 events \o [k \in 1..Len(iso_dates) |->
                                Event(EventTitle(lines[i]), iso_dates[k])])

\* lines 69-70: the check that ends the loop, made after the line's events
\* are appended
Emitted(lines, i, events) ==
    IF Len(events) >= HEURISTIC_EVENT_STOP THEN events
    ELSE HeuristicEvents(lines, i + 1, events)

\* line 53
Summary(lines) ==
    Truncate(Join(SubSeq(lines, 1, Min(Len(lines), SUMMARY_LINES)), <<SP>>),
             SUMMARY_CHARS)

\* line 72; an exception of _extract_evaluations passes through heuristic
Assemble(summary, events, evals) ==
    IF evals.ok THEN Return(ParseResult(summary, events, evals.value))
    ELSE Raise(evals.error)

\* lines 53-72
HeuristicOf(lines) ==
    Assemble(Summary(lines), HeuristicEvents(lines, 1, <<>>),
             _extract_evaluations(lines))

heuristic(t) == HeuristicOf(StripLines(SplitLines(t)))

\* ------------------------------------------------------------ parse_pdf_bytes
TOTAL_LOW == 98
TOTAL_HIGH == 102

NO_TEXT == "No text extracted."
NO_SUMMARY == "No summary returned."

\* lines 224-229 for one event of the response
LlmEvent(title, iso_list) ==
    IF title = <<>> THEN <<>>
    ELSE [k \in 1..Len(iso_list) |-> Event(title, iso_list[k])]

\* lines 221-229: one event per title and date of the response's events
RECURSIVE LlmEvents(_)
LlmEvents(es) ==
    IF es = <<>> THEN <<>>
    ELSE LlmEvent(Strip(Head(es).title, Whitespace),
                  _extract_iso_dates(Strip(Head(es).date, Whitespace)))
         \o LlmEvents(Tail(es))

\* lines 237-240 for one evaluation of the response
LlmEvaluation(name, weight) ==
    IF name # <<>> /\ 0 <= weight /\ weight <= WEIGHT_MAX * 100
    THEN <<Assessment(name, weight)>>
    ELSE <<>>

\* lines 235-240: the response's evaluations that pass the sanity check, each
\* built as an Assessment (a sequence of Return/Raise)
RECURSIVE LlmEvaluations(_)
LlmEvaluations(vs) ==
    IF vs = <<>> THEN <<>>
    ELSE LlmEvaluation(Strip(Head(vs).name, Whitespace), Head(vs).weight)
         \o LlmEvaluations(Tail(vs))

\* line 247: the rescale branch is taken for this list
RescaleTaken(evals) ==
    LET total == SumWeights(evals)
    IN  /\ evals # <<>>
        /\ total > 0
        /\ (total < TOTAL_LOW * 100 \/ total > TOTAL_HIGH * 100)

\* lines 245-253
Normalize(evals) ==
    IF RescaleTaken(evals)
    THEN ResidualFix([i \in 1..Len(evals) |->
            [evals[i] EXCEPT !.weight = Round2(@, SumWeights(evals))]])
    ELSE evals

\* line 255
PostReturn(r, events_out, evals_out, calls) ==
    Return(ParseResult(
        IF Strip(r.summary, Whitespace) = <<>> THEN <<NO_SUMMARY>>
        ELSE Strip(r.summary, Whitespace),
        SubSeq(events_out, 1, Min(Len(events_out), EVENT_CAP)),
        Normalize(evals_out)))
    @@ [calls |-> calls, rescaled |-> RescaleTaken(evals_out)]

\* lines 241-242, x being what _extract_evaluations gave
PostExtracted(r, events_out, x, calls) ==
    IF ~x.ok THEN Raise(x.error) @@ [calls |-> calls]
    ELSE PostReturn(r, events_out, x.value, calls)

\* lines 235-242, built being the Assessment calls of line 240
PostBuilt(r, t, events_out, built, calls) ==
    IF \E i \in 1..Len(built) : ~built[i].ok
    THEN Raise("ValidationError") @@ [calls |-> calls]
    ELSE IF built = <<>>
    THEN PostExtracted(r, events_out,
            _extract_evaluations(
                [i \in 1..Len(SplitLines(t)) |-> Strip(SplitLines(t)[i], Whitespace)]),
            calls + 1)
    ELSE PostReturn(r, events_out, [i \in 1..Len(built) |-> built[i].value], calls)

\* lines 230-232, h being what heuristic gave
PostHeuristic(r, t, h) ==
    IF ~h.ok THEN Raise(h.error) @@ [calls |-> 1]
    ELSE PostBuilt(r, t, h.value.events, LlmEvaluations(r.evaluations), 1)

\* lines 220-232 had they appended the heuristic's events to the model's
PostEventsMerged(r, t, from_llm) ==
    IF from_llm = <<>> THEN PostHeuristic(r, t, heuristic(t))
    ELSE PostBuilt(r, t,
            from_llm \o (IF heuristic(t).ok THEN heuristic(t).value.events ELSE <<>>),
            LlmEvaluations(r.evaluations), 1)

\* lines 220-232, from_llm being the events built from the response
PostEvents(r, t, from_llm) ==
    IF from_llm = <<>> THEN PostHeuristic(r, t, heuristic(t))
    ELSE PostBuilt(r, t, from_llm, LlmEvaluations(r.evaluations), 0)

\* lines 218-255 for response r and cleaned text t: the ParseResult returned
\* or the exception raised, with the number of calls of the heuristic
\* extractors (heuristic at line 232, _extract_evaluations at line 242) and
\* whether the rescale branch of line 247 was taken
PostProcess(r, t) == PostEvents(r, t, LlmEvents(r.events))

\* line 259: f"(Fallback due to error: {e})\n{fb.summary}"
Annotate(e, summary) == <<"(Fallback due to error: ", e, ")", LF>> \o summary

\* ------------------------------------------------------------ inputs
IsoSeq == <<"2025-01-01", "2025-01-02", "2025-01-03", "2025-01-04">>

NameSeq == <<"A", "B", "C", "D", "E", "F", "G", "H", "I", "J", "K", "L", "M">>

Name(i) == NameSeq[((i - 1) % Len(NameSeq)) + 1]

Iso(i) == IsoSeq[((i - 1) % Len(IsoSeq)) + 1]

\* "quiz <name>" followed by k ISO dates, the latest first
RECURSIVE DatesDown(_)
DatesDown(k) == IF k = 0 THEN <<>> ELSE <<SP, Iso(k)>> \o DatesDown(k - 1)

EventLine(i, k) == <<KW_QUIZ, SP, Name(i)>> \o DatesDown(k)

\* "quiz <name> <w>%"
EvalLine(i, pct) == <<KW_QUIZ, SP, Name(i), SP, pct>>

\* n event lines of k dates each
EventDoc(n, k) == Join([i \in 1..n |-> EventLine(i, k)], <<LF>>)

\* n evaluation lines: all 10%, or 50% followed by lines of 5%
EvalDoc(n, lead) ==
    Join([i \in 1..n |->
            EvalLine(i, IF lead THEN (IF i = 1 THEN "50%" ELSE "5%") ELSE "10%")],
         <<LF>>)

\* documents that are handled in a way of their own
SpecialDocs ==
    { <<>>, <<SP>>, <<LF>>, <<SP, LF, TAB, CR>>, <<HY, LF>>,
      <<LETTER>>,
      <<LETTER, SP, LF, LF, LF, LF, KW_QUIZ, SP, "2025-01-01", TAB, LF>>,
      <<KW_QUIZ, HY, LF, LETTER, SP, "2025-01-01">>,
      <<KW_DUE, SP, HY, SP, "2025-01-02", CR, KW_QUIZ, SP, "10%">>,
      <<KW_DUE, SP, "Oct 3", COMMA, SP, YEAR>>,
      <<KW_DUE, SP, "2025-01-02", SP, "Oct 3">>,
      <<KW_DUE, SP, "Oct 3">>,
      <<KW_DUE, SP, "Feb 30", SP, "2025-01-01">>,
      <<"2025-01-01", SP, KW_QUIZ>>,
      <<LETTER, SP, "2025-01-01">>,
      <<KW_LATE, SP, KW_QUIZ, SP, "10%">>,
      <<LETTER, SP, "10%">>,
      <<COUNT, SP, KW_QUIZ, SP, "20%", LF, KW_QUIZ, SP, "A", SP, "30%">>,
      <<KW_QUIZ, SP, "A", SP, "10%", LF, KW_QUIZ, SP, "A", SP, "30%", LF,
        KW_QUIZ, SP, "B", SP, "30%">>,
      <<KW_QUIZ, SP, "A", SP, HY, SP, "B", SP, "50%">>,
      <<KW_QUIZ, SP, "A", SP, "250%", LF, KW_QUIZ, SP, "B", SP, "0%">>,
      <<KW_QUIZ, SP, "A", SP, "30%", SP, "2025-01-03", SP, "20%">>,
      <<KW_QUIZ, SP, "A", SP, "10%", LF, KW_QUIZ, SP, "B", SP, "20%", LF,
        KW_DUE, SP, "2025-01-01">> }

\* the page texts of the model
Docs ==
    SpecialDocs
    \cup {EventDoc(n, k) : n \in 1..MaxEventLines, k \in 1..MaxDatesPerLine}
    \cup {EvalDoc(n, lead) : n \in 1..MaxEvalLines, lead \in BOOLEAN}

\* the uploaded PDFs: one page each, two pages, and one page more than
\* max_pages reads
Pdfs ==
    {<<d>> : d \in Docs}
    \cup { <<<<SP, LF>>, <<>>>>,
           <<<<KW_QUIZ, SP, "A", SP, "50%", LF>>, <<LF, KW_QUIZ, SP, "B", SP, "50%">>>>,
           [i \in 1..(MAX_PAGES + 1) |-> EventLine(i, 1)] }

\* the strings the cleaner is applied to on its own
Chars == {LETTER, HY, SP, TAB, CR, LF}

Strings == UNION {[1..n -> Chars] : n \in 0..MaxLen}

\* an LcSyllabus
LcSyllabus(summary, events, evaluations) ==
    [kind |-> "ok", error |-> None, summary |-> summary, events |-> events,
     evaluations |-> evaluations]

LcEvent(title, date) == [title |-> title, date |-> date]

LcEvaluation(name, weight) == [name |-> name, weight |-> weight]

\* event lists and evaluation lists an LLM response may carry
LlmEventLists ==
    { <<>>,
      <<LcEvent(<<"A">>, <<"2025-01-01">>)>>,
      <<LcEvent(<<SP>>, <<"2025-01-01">>)>>,
      <<LcEvent(<<"A">>, <<>>)>>,
      <<LcEvent(<<"A">>, <<LETTER>>)>>,
      <<LcEvent(<<SP, "A", SP>>, <<"2025-01-02", SP, "2025-01-01">>),
        LcEvent(<<"B">>, <<>>),
        LcEvent(<<"C">>, <<"Oct 3", COMMA, SP, YEAR>>)>>,
      [i \in 1..MaxLlmEvents |-> LcEvent(<<Name(i)>>, <<Iso(i)>>)] }

LlmEvaluationLists ==
    { <<>>,
      <<LcEvaluation(<<"A">>, 5000), LcEvaluation(<<"B">>, 5000)>>,
      <<LcEvaluation(<<"A">>, 3000), LcEvaluation(<<"B">>, 3000)>>,
      <<LcEvaluation(<<"A">>, 3333), LcEvaluation(<<"B">>, 6667)>>,
      <<LcEvaluation(<<"A">>, 1000), LcEvaluation(<<"B">>, 1000),
        LcEvaluation(<<"C">>, 1000)>>,
      <<LcEvaluation(<<"A">>, 25000), LcEvaluation(<<SP>>, 5000)>>,
      <<LcEvaluation(<<"A">>, 0)>>,
      [i \in 1..(MaxLlmEvals - 4) |-> LcEvaluation(<<Name(i)>>, 1000)],
      [i \in 1..MaxLlmEvals |-> LcEvaluation(<<Name(i)>>, 1000)] }

\* what chain.invoke gives: an LcSyllabus, or an exception
Responses ==
    {[kind |-> "error", error |-> "APIError", summary |-> <<>>, events |-> <<>>,
      evaluations |-> <<>>]}
    \cup {LcSyllabus(<<LETTER>>, es, <<LcEvaluation(<<"A">>, 10000)>>) :
            es \in LlmEventLists}
    \cup {LcSyllabus(<<SP>>, <<LcEvent(<<"A">>, <<"2025-01-01">>)>>, vs) :
            vs \in LlmEvaluationLists}

NoResponse == [kind |-> "none", error |-> None, summary |-> <<>>, events |-> <<>>,
               evaluations |-> <<>>]

NoResult == ParseResult(<<>>, <<>>, <<>>)

\* ------------------------------------------------------------ parse_pdf_bytes, step by step
Init ==
    /\ pc = "start"
    /\ pages \in Pdfs
    /\ key \in BOOLEAN
    /\ pyd \in {1, 2}
    /\ raw = <<>>
    /\ text = <<>>
    /\ resp = NoResponse
    /\ result = NoResult
    /\ err = None
    /\ via = "none"
    /\ rescaled = FALSE
    /\ llmCalls = 0
    /\ heurCalls = 0
    /\ fallbacks = 0
    /\ once = <<>>
    /\ twice = <<>>

\* lines 201-202
ParseExtract ==
    /\ pc = "start"
    /\ raw' = extract_text_from_pdf(pages, MAX_PAGES)
    /\ text' = _clean_text(raw')
    /\ pc' = "cleaned"
    /\ UNCHANGED <<rescaled, pages, key, pyd, resp, result, err, via, llmCalls, heurCalls,
                   fallbacks, once, twice>>

\* lines 203-206 had the early return of line 204 been left out
ParseNoTextFallsThrough ==
    /\ pc = "cleaned"
    /\ Strip(text, Whitespace) = <<>>
    /\ heuristic(text).ok
    /\ result' = heuristic(text).value
    /\ heurCalls' = heurCalls + 1
    /\ via' = "nokey"
    /\ pc' = "done"
    /\ UNCHANGED <<rescaled, pages, raw, text, key, pyd, resp, err, llmCalls, fallbacks,
                   once, twice>>

\* lines 203-204
ParseNoText ==
    /\ pc = "cleaned"
    /\ Strip(text, Whitespace) = <<>>
    /\ result' = ParseResult(<<NO_TEXT>>, <<>>, <<>>)
    /\ via' = "notext"
    /\ pc' = "done"
    /\ UNCHANGED <<rescaled, pages, raw, text, key, pyd, resp, err, llmCalls, heurCalls,
                   fallbacks, once, twice>>

\* line 206 had it kept the heuristic's events and dropped its evaluations
ReturnHeuristicEventsOnly(h) ==
    /\ heurCalls' = heurCalls + 1
    /\ via' = "nokey"
    /\ IF h.ok
       THEN /\ result' = [h.value EXCEPT !.evaluations = <<>>]
            /\ pc' = "done"
            /\ err' = err
       ELSE result' = result /\ pc' = "raised" /\ err' = h.error

\* line 206 with h being what heuristic gave
ReturnHeuristic(h) ==
    /\ heurCalls' = heurCalls + 1
    /\ via' = "nokey"
    /\ IF h.ok
       THEN result' = h.value /\ pc' = "done" /\ err' = err
       ELSE result' = result /\ pc' = "raised" /\ err' = h.error

\* lines 205-206
ParseNoKey ==
    /\ pc = "cleaned"
    /\ Strip(text, Whitespace) # <<>>
    /\ ~key
    /\ ReturnHeuristic(heuristic(text))
    /\ UNCHANGED <<rescaled, pages, raw, text, key, pyd, resp, llmCalls, fallbacks, once, twice>>

\* lines 208-216: the one call of the LLM; it returns an LcSyllabus or raises
ParseInvoke ==
    /\ pc = "cleaned"
    /\ Strip(text, Whitespace) # <<>>
    /\ key
    /\ \E r \in Responses :
        /\ resp' = r
        /\ llmCalls' = llmCalls + 1
        /\ IF r.kind = "ok"
           THEN pc' = "post" /\ err' = err
           ELSE pc' = "except" /\ err' = r.error
    /\ UNCHANGED <<rescaled, pages, raw, text, key, pyd, result, via, heurCalls, fallbacks,
                   once, twice>>

\* line 255, or the jump to the except block, p being what lines 218-255 gave
ReturnOrCatch(p) ==
    /\ heurCalls' = heurCalls + p.calls
    /\ IF p.ok
       THEN /\ result' = p.value
            /\ rescaled' = p.rescaled
            /\ via' = "llm"
            /\ pc' = "done"
            /\ err' = err
       ELSE /\ result' = result
            /\ rescaled' = rescaled
            /\ via' = via
            /\ pc' = "except"
            /\ err' = p.error

\* lines 218-255
ParsePost ==
    /\ pc = "post"
    /\ ReturnOrCatch(PostProcess(resp, text))
    /\ UNCHANGED <<pages, raw, text, key, pyd, resp, llmCalls, fallbacks, once, twice>>

\* lines 258-260 with fb being what heuristic gave
ReturnFallback(fb) ==
    /\ heurCalls' = heurCalls + 1
    /\ fallbacks' = fallbacks + 1
    /\ via' = "fallback"
    /\ IF fb.ok
       THEN /\ result' = [fb.value EXCEPT !.summary = Annotate(err, @)]
            /\ pc' = "done"
            /\ err' = err
       ELSE result' = result /\ pc' = "raised" /\ err' = fb.error

\* lines 256-260
ParseFallback ==
    /\ pc = "except"
    /\ ReturnFallback(heuristic(text))
    /\ UNCHANGED <<rescaled, pages, raw, text, key, pyd, resp, llmCalls, once, twice>>

Next ==
    \/ ParseExtract
    \/ ParseNoText
    \/ ParseNoKey
    \/ ParseInvoke
    \/ ParsePost
    \/ ParseFallback

Spec == Init /\ [][Next]_vars

\* ------------------------------------------------------------ the cleaner on its own
InitClean ==
    /\ pc = "clean0"
    /\ raw \in Strings
    /\ pages = <<>>
    /\ key = FALSE
    /\ pyd = 2
    /\ text = <<>>
    /\ resp = NoResponse
    /\ result = NoResult
    /\ err = None
    /\ via = "none"
    /\ rescaled = FALSE
    /\ llmCalls = 0
    /\ heurCalls = 0
    /\ fallbacks = 0
    /\ once = <<>>
    /\ twice = <<>>

CleanOnce ==
    /\ pc = "clean0"
    /\ once' = _clean_text(raw)
    /\ pc' = "clean1"
    /\ UNCHANGED <<rescaled, pages, raw, text, key, pyd, resp, result, err, via, llmCalls,
                   heurCalls, fallbacks, twice>>

CleanTwice ==
    /\ pc = "clean1"
    /\ twice' = _clean_text(once)
    /\ pc' = "clean2"
    /\ UNCHANGED <<rescaled, pages, raw, text, key, pyd, resp, result, err, via, llmCalls,
                   heurCalls, fallbacks, once>>

NextClean == CleanOnce \/ CleanTwice

SpecClean == InitClean /\ [][NextClean]_vars

\* ------------------------------------------------------------ properties
\* the run is over: parse_pdf_bytes returned or let an exception out
Terminated == pc \in {"done", "raised"}

\* what heuristic gives for the cleaned text of this run
OfHeuristic == heuristic(text)

\* the events the response of this run yields at lines 220-228
FromLlm == LlmEvents(resp.events)

FirstN(s, n) == SubSeq(s, 1, Min(Len(s), n))

\* weights in hundredths of a percent add up to 100 within 0.05
SumsTo100(evals) ==
    /\ SumWeights(evals) >= 10000 - TOLERANCE
    /\ SumWeights(evals) <= 10000 + TOLERANCE

\* C1: no run of parse_pdf_bytes ends with an exception leaving the function;
\* every run that ends, ends by returning a ParseResult, also when the
\* normalized weights are not integers and when heuristic runs inside the
\* exception handler.
C1_NeverRaises == pc # "raised"

\* C2: whatever path produced it (no text, no credential, LLM success,
\* fallback), a returned ParseResult has at most 20 events.
C2_AtMost20Events == pc = "done" => Len(result.events) <= 20

\* C3: whatever path produced it, the LLM success path included, a returned
\* ParseResult has at most 10 evaluations.
C3_AtMost10Evaluations == pc = "done" => Len(result.evaluations) <= 10

\* C4: a non-empty evaluation list that _extract_evaluations returned (the
\* result of the no-credential and fallback paths carries it unchanged), and
\* an evaluation list the orchestrator rescaled at lines 247-253, has weights
\* that add up to 100 within 0.05, also when more than 10 names were found.
C4_WeightsSumTo100 ==
    (/\ pc = "done"
     /\ result.evaluations # <<>>
     /\ \/ via \in {"nokey", "fallback"}
        \/ via = "llm" /\ rescaled)
    => SumsTo100(result.evaluations)

\* C5: without a credential and with a non-empty cleaned text, the run ends as
\* heuristic ends on that text, returning exactly the ParseResult heuristic
\* returns, and the LLM is not invoked at any point of the run.
C5_NoKeyIsHeuristic ==
    (~key /\ text # <<>>) =>
        /\ llmCalls = 0
        /\ resp = NoResponse
        /\ Terminated =>
            IF OfHeuristic.ok
            THEN pc = "done" /\ result = OfHeuristic.value
            ELSE pc = "raised" /\ err = OfHeuristic.error

\* a no-credential run that returned events and evaluations
C5_Witness ==
    /\ pc = "done"
    /\ ~key
    /\ via = "nokey"
    /\ result.events # <<>>
    /\ result.evaluations # <<>>
    /\ result = OfHeuristic.value

\* C6: when the extracted text is empty or only whitespace, the run returns
\* ParseResult("No text extracted.", [], []) with or without a credential,
\* and neither the heuristic nor the LLM is invoked.
C6_NoText ==
    (pc # "start" /\ Strip(raw, Whitespace) = <<>>) =>
        /\ heurCalls = 0
        /\ llmCalls = 0
        /\ fallbacks = 0
        /\ pc \in {"cleaned", "done"}
        /\ pc = "done" => /\ via = "notext"
                          /\ result = ParseResult(<<"No text extracted.">>, <<>>, <<>>)

\* a run with a credential whose pages hold only whitespace has returned
C6_Witness ==
    /\ pc = "done"
    /\ key
    /\ pages # <<>>
    /\ pages[1] # <<>>
    /\ Strip(raw, Whitespace) = <<>>
    /\ via = "notext"

\* C7: when the LLM call or the post-processing of its response fails, the run
\* returns a result whose events and evaluations are those of heuristic on the
\* cleaned text and whose summary is heuristic's summary behind the fallback
\* annotation that names the error; nothing of the response is in it.
C7_FallbackIsHeuristic ==
    (Terminated /\ fallbacks > 0) =>
        /\ pc = "done"
        /\ err # None
        /\ OfHeuristic.ok
        /\ result.events = OfHeuristic.value.events
        /\ result.evaluations = OfHeuristic.value.evaluations
        /\ result.summary =
            <<"(Fallback due to error: ", err, ")", LF>> \o OfHeuristic.value.summary

\* C8: the LLM is invoked at most once in a run; once the invocation failed it
\* is not invoked again, the fallback is taken once, and the run then ends
\* with a result.
C8_OneCallOneFallback ==
    /\ llmCalls <= 1
    /\ fallbacks <= 1
    /\ resp.kind = "error" =>
        /\ llmCalls = 1
        /\ \/ pc = "except" /\ fallbacks = 0
           \/ pc = "done" /\ fallbacks = 1 /\ via = "fallback"

\* C9: cleaning a cleaned text changes nothing: _clean_text(_clean_text(s))
\* is _clean_text(s) for every string s, those with a hyphen followed by a
\* carriage return that no line feed follows included.
C9_CleanIdempotent == pc = "clean2" => twice = once

\* C10: on the LLM success path the events of the result are the events built
\* from the response, in its order and cut to 20, when there is at least one
\* of them, and heuristic's events cut to 20 otherwise; never a mixture.
C10_EventsFromOneSource ==
    (pc = "done" /\ via = "llm") =>
        IF FromLlm # <<>>
        THEN result.events = FirstN(FromLlm, 20)
        ELSE OfHeuristic.ok /\ result.events = FirstN(OfHeuristic.value.events, 20)

\* an LLM success whose response yielded events while heuristic finds other
\* events in the same text
C10_Witness ==
    /\ pc = "done"
    /\ via = "llm"
    /\ FromLlm # <<>>
    /\ OfHeuristic.ok
    /\ OfHeuristic.value.events # <<>>
    /\ OfHeuristic.value.events # result.events

====
